---- MODULE Spec2Model ----
(***************************************************************************)
(* Smart Traffic Flow Optimizer: the Graph class of graph.py (adjacency    *)
(* lists of Edge records, optional coordinates), its two searches          *)
(* (dijkstra / shortest_path_dijkstra and a_star) and the shared           *)
(* _reconstruct_path, together with the sample data of sample_data.py.     *)
(*                                                                         *)
(* Numbers.  The program computes in Python floats.  Here a float is an    *)
(* integer counting tenths: a traffic_factor of 1.2 is 12, a distance is   *)
(* a whole number, effective_weight = distance * traffic_factor is in      *)
(* tenths, and so is every cost (13.9 is 139).  The floats are a finite    *)
(* range with -inf and +inf at its ends: a sum that leaves                 *)
(* [-FloatMax, FloatMax] is -inf or +inf, and inf absorbs every addend.    *)
(*                                                                         *)
(* Control.  A call is one action when the code has no loop on its way     *)
(* (add_node, add_edge, neighbors, nodes, edges, a raised ValueError);     *)
(* the while loops of dijkstra, a_star and _reconstruct_path take one      *)
(* step per iteration.  pc is the position of the single thread.           *)
(***************************************************************************)
EXTENDS Integers, Sequences, FiniteSets, TLC

VARIABLES
    adj,        \* Graph.adj: node -> sequence of Edge records
    coords,     \* Graph.coords: node -> <<x, y>>
    pc,         \* "idle" | "dijkstra" | "a_star" | "reconstruct" | "done"
    op,         \* the method being executed
    start,      \* its start argument
    goal,       \* its end / goal argument
    dist,       \* dijkstra: dist
    prev,       \* dijkstra: prev
    pq,         \* dijkstra: pq
    g_score,    \* a_star: g_score
    f_score,    \* a_star: f_score
    came_from,  \* a_star: came_from
    open_set,   \* a_star: open_set
    path,       \* _reconstruct_path: path
    cur,        \* _reconstruct_path: cur
    result      \* what the finished call returned or raised

vars == <<adj, coords, pc, op, start, goal, dist, prev, pq, g_score, f_score,
          came_from, open_set, path, cur, result>>

graphVars == <<adj, coords>>
dijkstraVars == <<dist, prev, pq>>
astarVars == <<g_score, f_score, came_from, open_set>>
reconVars == <<path, cur>>

-----------------------------------------------------------------------------
(* Bounds of the model *)

\* largest finite float, in tenths
FloatMax == 1000
\* stored directed edges beyond which add_edge is no longer called
MaxEdges == 2
\* nodes that may carry a coordinate
MaxCoords == 2
\* list entries of _reconstruct_path's path that the model keeps
MaxPath == 6

Inf == FloatMax + 1
NegInf == 0 - Inf

None == "None"
\* coord=None
NoCoord == << >>
EmptyMap == << >>

\* every node label, in Python's string order
NodeNames == <<"A", "B", "C", "D", "E", "Z">>
\* labels the callers pass to add_node / add_edge
Names == {"A", "B", "C"}
\* labels the callers of the loaded graphs query
QueryNames == {"A", "B", "C", "Z"}
\* (distance, traffic_factor) pairs passed to add_edge, factors in tenths:
\* three valid pairs (distance 0 is valid), a negative distance, a zero factor.
\* The negative weight -40 * 1.0 takes a float below -FloatMax within three
\* additions, as -1e308 does in the program.
WeightInputs == {<<0, 10>>, <<1, 10>>, <<3, 10>>, <<-40, 10>>, <<1, 0>>}
\* coordinates passed to add_node
CoordInputs == {<<0, 0>>, <<3, 0>>}

-----------------------------------------------------------------------------
(* Floats *)

\* float addition
Plus(a, b) ==
    IF a = Inf \/ a = NegInf THEN a
    ELSE IF b = Inf \/ b = NegInf THEN b
    ELSE IF a + b > FloatMax THEN Inf
    ELSE IF a + b < 0 - FloatMax THEN NegInf
    ELSE a + b

Abs(x) == IF x < 0 THEN 0 - x ELSE x

\* math.hypot on the coordinates in use (integer results), in whole units
Hypot(dx, dy) ==
    CHOOSE r \in 0..(Abs(dx) + Abs(dy)) : r * r = dx * dx + dy * dy

-----------------------------------------------------------------------------
(* Edge *)

Edge(to_node, distance, traffic_factor) ==
    [to_node |-> to_node, distance |-> distance, traffic_factor |-> traffic_factor]

\* faulty variant of effective_weight: the traffic factor is left out
\* (distance * 1.0, in tenths)
EffectiveWeightNoFactor(e) == e.distance * 10

effective_weight(e) == e.distance * e.traffic_factor

-----------------------------------------------------------------------------
(* heapq over (float, str) tuples: heappop returns the smallest tuple *)

Rank(n) == CHOOSE i \in 1..Len(NodeNames) : NodeNames[i] = n

TupleLess(x, y) ==
    \/ x[1] < y[1]
    \/ x[1] = y[1] /\ Rank(x[2]) < Rank(y[2])

RECURSIVE heappush(_, _)
heappush(h, x) ==
    IF h = << >> THEN <<x>>
    ELSE IF TupleLess(x, Head(h)) THEN <<x>> \o h
    ELSE <<Head(h)>> \o heappush(Tail(h), x)

-----------------------------------------------------------------------------
(* Graph: dictionaries *)

Put(f, k, v) == (k :> v) @@ f

Get(f, k) == IF k \in DOMAIN f THEN f[k] ELSE None

neighbors(a, node) == IF node \in DOMAIN a THEN a[node] ELSE << >>

nodes(a) == DOMAIN a

RECURSIVE SumLen(_, _)
SumLen(a, S) ==
    IF S = {} THEN 0
    ELSE LET n == CHOOSE x \in S : TRUE IN Len(a[n]) + SumLen(a, S \ {n})

\* len(Graph.edges())
NumEdges(a) == SumLen(a, DOMAIN a)

\* Graph.edges(): one entry per stored directed edge, with its place in the list
edges(a) ==
    UNION {{<<u, i, a[u][i].to_node, a[u][i].distance, a[u][i].traffic_factor>> :
               i \in 1..Len(a[u])} : u \in DOMAIN a}

\* Graph.add_node on the pair (adj, coords)
add_node(g, node, coord) ==
    [adj    |-> IF node \in DOMAIN g.adj THEN g.adj ELSE Put(g.adj, node, << >>),
     coords |-> IF coord # NoCoord THEN Put(g.coords, node, coord) ELSE g.coords]

\* faulty variant of add_edge: add_node(v) is left out (v is created only by
\* the reverse edge of a bidirectional pair)
AddEdgeTargetNotCreated(g, u, v, distance, traffic_factor, bidirectional) ==
    LET g1 == add_node(g, u, NoCoord)
        a1 == IF v \in DOMAIN g1.adj \/ bidirectional
              THEN [add_node(g1, v, NoCoord).adj EXCEPT ![u] = Append(@, Edge(v, distance, traffic_factor))]
              ELSE [g1.adj EXCEPT ![u] = Append(@, Edge(v, distance, traffic_factor))]
        a2 == IF bidirectional
              THEN [a1 EXCEPT ![v] = Append(@, Edge(u, distance, traffic_factor))]
              ELSE a1
    IN  [adj |-> a2, coords |-> g.coords]

\* Graph.add_edge on the pair (adj, coords)
add_edge(g, u, v, distance, traffic_factor, bidirectional) ==
    LET g2 == add_node(add_node(g, u, NoCoord), v, NoCoord)
        a1 == [g2.adj EXCEPT ![u] = Append(@, Edge(v, distance, traffic_factor))]
        a2 == IF bidirectional
              THEN [a1 EXCEPT ![v] = Append(@, Edge(u, distance, traffic_factor))]
              ELSE a1
    IN  [adj |-> a2, coords |-> g2.coords]

\* Graph.load_from_edge_list: add_edge(u, v, d, t, bidirectional=True) per tuple
RECURSIVE load_from_edge_list(_, _)
load_from_edge_list(g, edge_list) ==
    IF edge_list = << >> THEN g
    ELSE LET e == Head(edge_list)
         IN  load_from_edge_list(add_edge(g, e[1], e[2], e[3], e[4], TRUE),
                                 Tail(edge_list))

\* sample_data.get_sample_edges(), traffic factors in tenths
get_sample_edges ==
    << <<"A", "B", 4, 10>>, <<"A", "C", 2, 12>>, <<"B", "C", 1, 10>>,
       <<"B", "D", 5, 11>>, <<"C", "D", 8, 10>>, <<"C", "E", 10, 13>>,
       <<"D", "E", 2, 10>>, <<"D", "Z", 6, 14>>, <<"E", "Z", 3, 10>> >>

\* Graph._heuristic, in tenths
_heuristic(c, a, b) ==
    IF a \in DOMAIN c /\ b \in DOMAIN c
    THEN 10 * Hypot(c[b][1] - c[a][1], c[b][2] - c[a][2])
    ELSE 0

-----------------------------------------------------------------------------
(* dijkstra *)

\* faulty variant of DijkstraInit: a large finite number in place of
\* float('inf')
DijkstraInitBigSentinel(a, s) ==
    [dist |-> [n \in DOMAIN a |-> IF n = s THEN 0 ELSE FloatMax],
     prev |-> EmptyMap,
     pq   |-> << <<0, s>> >>]

\* lines 68-71: the locals before the loop
DijkstraInit(a, s) ==
    [dist |-> [n \in DOMAIN a |-> IF n = s THEN 0 ELSE Inf],
     prev |-> EmptyMap,
     pq   |-> << <<0, s>> >>]

\* lines 77-84: the for loop over neighbors(u), with curr_d as popped
RECURSIVE DijkstraRelax(_, _, _, _)
DijkstraRelax(es, u, curr_d, st) ==
    IF es = << >> THEN st
    ELSE LET edge == Head(es)
             v    == edge.to_node
             w    == effective_weight(edge)
             nd   == Plus(curr_d, w)
         IN  IF nd < st.dist[v]
             THEN DijkstraRelax(Tail(es), u, curr_d,
                      [dist |-> [st.dist EXCEPT ![v] = nd],
                       prev |-> Put(st.prev, v, u),
                       pq   |-> heappush(st.pq, <<nd, v>>)])
             ELSE DijkstraRelax(Tail(es), u, curr_d, st)

\* faulty variant of DijkstraIter: the stale test is >= in place of >
DijkstraIterStaleGE(a, st) ==
    LET curr_d == Head(st.pq)[1]
        u      == Head(st.pq)[2]
        popped == [st EXCEPT !.pq = Tail(st.pq)]
    IN  IF curr_d >= st.dist[u] THEN popped
        ELSE DijkstraRelax(neighbors(a, u), u, curr_d, popped)

\* lines 74-84: one iteration of the while loop
DijkstraIter(a, st) ==
    LET curr_d == Head(st.pq)[1]
        u      == Head(st.pq)[2]
        popped == [st EXCEPT !.pq = Tail(st.pq)]
    IN  IF curr_d > st.dist[u] THEN popped
        ELSE DijkstraRelax(neighbors(a, u), u, curr_d, popped)

\* lines 73-85: the while loop, run to its end
RECURSIVE DijkstraRun(_, _)
DijkstraRun(a, st) ==
    IF st.pq = << >> THEN st ELSE DijkstraRun(a, DijkstraIter(a, st))

-----------------------------------------------------------------------------
(* a_star *)

\* lines 108-114: the locals before the loop
AStarInit(a, c, s, g) ==
    [g_score   |-> [n \in DOMAIN a |-> IF n = s THEN 0 ELSE Inf],
     f_score   |-> [n \in DOMAIN a |-> IF n = s THEN _heuristic(c, s, g) ELSE Inf],
     came_from |-> EmptyMap,
     open_set  |-> << <<0, s>> >>]

\* faulty variant of AStarRelax: the queue priority is the heuristic alone
\* (f = h in place of f = g + h)
RECURSIVE AStarRelaxGreedy(_, _, _, _, _)
AStarRelaxGreedy(es, current, c, g, st) ==
    IF es = << >> THEN st
    ELSE LET edge        == Head(es)
             neighbor    == edge.to_node
             tentative_g == Plus(st.g_score[current], effective_weight(edge))
             f           == _heuristic(c, neighbor, g)
         IN  IF tentative_g < st.g_score[neighbor]
             THEN AStarRelaxGreedy(Tail(es), current, c, g,
                      [g_score   |-> [st.g_score EXCEPT ![neighbor] = tentative_g],
                       f_score   |-> [st.f_score EXCEPT ![neighbor] = f],
                       came_from |-> Put(st.came_from, neighbor, current),
                       open_set  |-> heappush(st.open_set, <<f, neighbor>>)])
             ELSE AStarRelaxGreedy(Tail(es), current, c, g, st)

\* lines 122-129: the for loop over neighbors(current); g_score[current] is
\* read anew for every edge
RECURSIVE AStarRelax(_, _, _, _, _)
AStarRelax(es, current, c, g, st) ==
    IF es = << >> THEN st
    ELSE LET edge        == Head(es)
             neighbor    == edge.to_node
             tentative_g == Plus(st.g_score[current], effective_weight(edge))
             f           == Plus(tentative_g, _heuristic(c, neighbor, g))
         IN  IF tentative_g < st.g_score[neighbor]
             THEN AStarRelax(Tail(es), current, c, g,
                      [g_score   |-> [st.g_score EXCEPT ![neighbor] = tentative_g],
                       f_score   |-> [st.f_score EXCEPT ![neighbor] = f],
                       came_from |-> Put(st.came_from, neighbor, current),
                       open_set  |-> heappush(st.open_set, <<f, neighbor>>)])
             ELSE AStarRelax(Tail(es), current, c, g, st)

\* lines 117, 122-129: one iteration of the while loop that does not pop the goal
AStarIter(a, c, g, st) ==
    LET current == Head(st.open_set)[2]
        popped  == [st EXCEPT !.open_set = Tail(st.open_set)]
    IN  AStarRelax(neighbors(a, current), current, c, g, popped)

-----------------------------------------------------------------------------
(* The state machine *)

NoResult ==
    [status |-> "none", path |-> << >>, cost |-> 0, value |-> << >>]

\* a call that returned (path, cost)
Returned(p, c) ==
    [status |-> "returned", path |-> p, cost |-> c, value |-> << >>]

\* a call that returned another value
ReturnedValue(v) ==
    [status |-> "returned", path |-> << >>, cost |-> 0, value |-> v]

\* raise ValueError(...)
Raised ==
    [status |-> "ValueError", path |-> << >>, cost |-> 0, value |-> << >>]

\* the locals of the searches, while no search runs
NoLocals ==
    /\ dist = EmptyMap /\ prev = EmptyMap /\ pq = << >>
    /\ g_score = EmptyMap /\ f_score = EmptyMap
    /\ came_from = EmptyMap /\ open_set = << >>
    /\ path = << >> /\ cur = None

\* Graph.__init__
Init ==
    /\ adj = EmptyMap
    /\ coords = EmptyMap
    /\ pc = "idle"
    /\ op = None /\ start = None /\ goal = None
    /\ result = NoResult
    /\ NoLocals

Graph == [adj |-> adj, coords |-> coords]

\* g.add_node(node, coord)
AddNode(node, coord) ==
    /\ pc = "idle"
    /\ coord # NoCoord => Cardinality(DOMAIN coords \cup {node}) <= MaxCoords
    /\ adj' = add_node(Graph, node, coord).adj
    /\ coords' = add_node(Graph, node, coord).coords
    /\ UNCHANGED <<pc, op, start, goal, result, dijkstraVars, astarVars, reconVars>>

\* g.add_edge(u, v, distance, traffic_factor, bidirectional)
AddEdge(u, v, distance, traffic_factor, bidirectional) ==
    /\ pc = "idle"
    /\ NumEdges(adj) + (IF bidirectional THEN 2 ELSE 1) <= MaxEdges
    /\ adj' = add_edge(Graph, u, v, distance, traffic_factor, bidirectional).adj
    /\ coords' = add_edge(Graph, u, v, distance, traffic_factor, bidirectional).coords
    /\ UNCHANGED <<pc, op, start, goal, result, dijkstraVars, astarVars, reconVars>>

NewGraph == [adj |-> EmptyMap, coords |-> EmptyMap]

\* g = Graph(); g.load_from_edge_list(edge_list)
LoadFromEdgeList(edge_list) ==
    /\ pc = "idle"
    /\ adj' = load_from_edge_list(NewGraph, edge_list).adj
    /\ coords' = load_from_edge_list(NewGraph, edge_list).coords
    /\ UNCHANGED <<pc, op, start, goal, result, dijkstraVars, astarVars, reconVars>>

\* faulty variant of Neighbors: self.adj.setdefault(node, []) in place of
\* self.adj.get(node, [])
NeighborsSetDefault(node) ==
    /\ pc = "idle"
    /\ pc' = "done" /\ op' = "neighbors" /\ start' = node /\ goal' = None
    /\ result' = ReturnedValue(neighbors(adj, node))
    /\ adj' = add_node(Graph, node, NoCoord).adj
    /\ UNCHANGED <<coords, dijkstraVars, astarVars, reconVars>>

\* g.neighbors(node)
Neighbors(node) ==
    /\ pc = "idle"
    /\ pc' = "done" /\ op' = "neighbors" /\ start' = node /\ goal' = None
    /\ result' = ReturnedValue(neighbors(adj, node))
    /\ UNCHANGED <<graphVars, dijkstraVars, astarVars, reconVars>>

\* g.nodes()
Nodes ==
    /\ pc = "idle"
    /\ pc' = "done" /\ op' = "nodes" /\ start' = None /\ goal' = None
    /\ result' = ReturnedValue(nodes(adj))
    /\ UNCHANGED <<graphVars, dijkstraVars, astarVars, reconVars>>

\* g.edges()
Edges ==
    /\ pc = "idle"
    /\ pc' = "done" /\ op' = "edges" /\ start' = None /\ goal' = None
    /\ result' = ReturnedValue(edges(adj))
    /\ UNCHANGED <<graphVars, dijkstraVars, astarVars, reconVars>>

\* lines 66-71: entry of dijkstra(start), called directly (method = "dijkstra")
\* or from shortest_path_dijkstra(start, end) (line 88)
DijkstraEnter(method, s, e) ==
    /\ pc = "idle"
    /\ op' = method /\ start' = s /\ goal' = e
    /\ IF s \notin DOMAIN adj
       THEN /\ pc' = "done"
            /\ result' = Raised
            /\ UNCHANGED dijkstraVars
       ELSE /\ pc' = "dijkstra"
            /\ result' = NoResult
            /\ dist' = DijkstraInit(adj, s).dist
            /\ prev' = DijkstraInit(adj, s).prev
            /\ pq' = DijkstraInit(adj, s).pq
    /\ UNCHANGED <<graphVars, astarVars, reconVars>>

CallDijkstra(s) == DijkstraEnter("dijkstra", s, None)

CallShortestPathDijkstra(s, e) == DijkstraEnter("shortest_path_dijkstra", s, e)

DijkstraState == [dist |-> dist, prev |-> prev, pq |-> pq]

\* lines 73-84: one iteration of dijkstra's while loop
DijkstraStep ==
    /\ pc = "dijkstra"
    /\ pq # << >>
    /\ dist' = DijkstraIter(adj, DijkstraState).dist
    /\ prev' = DijkstraIter(adj, DijkstraState).prev
    /\ pq' = DijkstraIter(adj, DijkstraState).pq
    /\ UNCHANGED <<graphVars, pc, op, start, goal, result, astarVars, reconVars>>

\* line 85, and lines 89-91 when called by shortest_path_dijkstra
DijkstraReturn ==
    /\ pc = "dijkstra"
    /\ pq = << >>
    /\ IF op = "dijkstra"
       THEN /\ pc' = "done"
            /\ result' = ReturnedValue(<<dist, prev>>)
            /\ UNCHANGED reconVars
       ELSE IF goal \notin DOMAIN dist \/ dist[goal] = Inf
       THEN /\ pc' = "done"
            /\ result' = Returned(<< >>, Inf)
            /\ UNCHANGED reconVars
       ELSE /\ pc' = "reconstruct"
            /\ path' = << >>
            /\ cur' = goal
            /\ UNCHANGED result
    /\ UNCHANGED <<graphVars, op, start, goal, dijkstraVars, astarVars>>

\* faulty variant of CallAStar: the goal is not checked at entry
CallAStarNoGoalCheck(s, g) ==
    /\ pc = "idle"
    /\ op' = "a_star" /\ start' = s /\ goal' = g
    /\ IF s \notin DOMAIN adj
       THEN /\ pc' = "done"
            /\ result' = Raised
            /\ UNCHANGED astarVars
       ELSE /\ pc' = "a_star"
            /\ result' = NoResult
            /\ g_score' = AStarInit(adj, coords, s, g).g_score
            /\ f_score' = AStarInit(adj, coords, s, g).f_score
            /\ came_from' = AStarInit(adj, coords, s, g).came_from
            /\ open_set' = AStarInit(adj, coords, s, g).open_set
    /\ UNCHANGED <<graphVars, dijkstraVars, reconVars>>

\* lines 105-114: entry of a_star(start, goal)
CallAStar(s, g) ==
    /\ pc = "idle"
    /\ op' = "a_star" /\ start' = s /\ goal' = g
    /\ IF s \notin DOMAIN adj \/ g \notin DOMAIN adj
       THEN /\ pc' = "done"
            /\ result' = Raised
            /\ UNCHANGED astarVars
       ELSE /\ pc' = "a_star"
            /\ result' = NoResult
            /\ g_score' = AStarInit(adj, coords, s, g).g_score
            /\ f_score' = AStarInit(adj, coords, s, g).f_score
            /\ came_from' = AStarInit(adj, coords, s, g).came_from
            /\ open_set' = AStarInit(adj, coords, s, g).open_set
    /\ UNCHANGED <<graphVars, dijkstraVars, reconVars>>

AStarState ==
    [g_score |-> g_score, f_score |-> f_score, came_from |-> came_from,
     open_set |-> open_set]

\* lines 116-129: one iteration of a_star's while loop
AStarStep ==
    /\ pc = "a_star"
    /\ open_set # << >>
    /\ IF Head(open_set)[2] = goal
       THEN /\ open_set' = Tail(open_set)
            /\ pc' = "reconstruct"
            /\ path' = << >>
            /\ cur' = goal
            /\ UNCHANGED <<g_score, f_score, came_from>>
       ELSE /\ g_score' = AStarIter(adj, coords, goal, AStarState).g_score
            /\ f_score' = AStarIter(adj, coords, goal, AStarState).f_score
            /\ came_from' = AStarIter(adj, coords, goal, AStarState).came_from
            /\ open_set' = AStarIter(adj, coords, goal, AStarState).open_set
            /\ UNCHANGED <<pc, reconVars>>
    /\ UNCHANGED <<graphVars, op, start, goal, result, dijkstraVars>>

\* line 131: the open set ran empty
AStarExhausted ==
    /\ pc = "a_star"
    /\ open_set = << >>
    /\ pc' = "done"
    /\ result' = Returned(<< >>, Inf)
    /\ UNCHANGED <<graphVars, op, start, goal, dijkstraVars, astarVars, reconVars>>

\* the came_from argument of _reconstruct_path (lines 91 and 119)
CameFromArg == IF op = "a_star" THEN came_from ELSE prev

\* the cost returned beside the path (lines 92 and 120)
CostArg == IF op = "a_star" THEN g_score[goal] ELSE dist[goal]

Reverse(s) == [i \in 1..Len(s) |-> s[Len(s) + 1 - i]]

\* path.append: the model keeps the first MaxPath entries of the list
PathAppend(p, n) == IF Len(p) < MaxPath THEN Append(p, n) ELSE p

\* lines 55-62: one iteration of _reconstruct_path's while loop, or its exit
ReconstructStep ==
    /\ pc = "reconstruct"
    /\ IF cur # start
       THEN IF Get(CameFromArg, cur) = None
            THEN /\ pc' = "done"
                 /\ path' = PathAppend(path, cur)
                 /\ result' = Returned(<< >>, CostArg)
                 /\ UNCHANGED cur
            ELSE /\ path' = PathAppend(path, cur)
                 /\ cur' = Get(CameFromArg, cur)
                 /\ UNCHANGED <<pc, result>>
       ELSE /\ pc' = "done"
            /\ path' = Reverse(Append(path, start))
            /\ result' = Returned(Reverse(Append(path, start)), CostArg)
            /\ UNCHANGED cur
    /\ UNCHANGED <<graphVars, op, start, goal, dijkstraVars, astarVars>>

\* the caller takes the result; the locals of the call are dropped
Return ==
    /\ pc = "done"
    /\ pc' = "idle"
    /\ op' = None /\ start' = None /\ goal' = None
    /\ result' = NoResult
    /\ dist' = EmptyMap /\ prev' = EmptyMap /\ pq' = << >>
    /\ g_score' = EmptyMap /\ f_score' = EmptyMap
    /\ came_from' = EmptyMap /\ open_set' = << >>
    /\ path' = << >> /\ cur' = None
    /\ UNCHANGED graphVars

Step ==
    \/ DijkstraStep
    \/ DijkstraReturn
    \/ AStarStep
    \/ AStarExhausted
    \/ ReconstructStep
    \/ Return

Next ==
    \/ \E n \in Names : AddNode(n, NoCoord)
    \/ \E u, v \in Names, w \in WeightInputs, b \in BOOLEAN :
           AddEdge(u, v, w[1], w[2], b)
    \/ \E n \in Names : Neighbors(n)
    \/ Nodes
    \/ Edges
    \/ \E s \in Names : CallDijkstra(s)
    \/ \E s, e \in Names : CallShortestPathDijkstra(s, e)
    \/ \E s, g \in Names : CallAStar(s, g)
    \/ Step

Spec == Init /\ [][Next]_vars

\* distances of the edge lists loaded in one call
LoadDistances == {1, 2, 3}

\* edge lists handed to load_from_edge_list: the sample data, and triangles
EdgeLists ==
    {get_sample_edges} \cup
    { << <<"A", "B", d1, 10>>, <<"A", "C", d2, 10>>, <<"C", "B", d3, 10>> >> :
        d1 \in LoadDistances, d2 \in LoadDistances, d3 \in LoadDistances }

NextLoad ==
    \/ \E el \in EdgeLists : LoadFromEdgeList(el)
    \/ \E n \in Names, c \in CoordInputs : AddNode(n, c)
    \/ \E n \in QueryNames : Neighbors(n)
    \/ Nodes
    \/ Edges
    \/ \E s \in QueryNames : CallDijkstra(s)
    \/ \E s, e \in QueryNames : CallShortestPathDijkstra(s, e)
    \/ \E s, g \in QueryNames : CallAStar(s, g)
    \/ Step

\* graphs loaded from edge lists, as by main.py, then given coordinates
SpecLoad == Init /\ [][NextLoad]_vars

-----------------------------------------------------------------------------
(* Reference notions the claims are stated with.  They read the stored     *)
(* edges directly and share nothing with the searches above.               *)

\* the stored weight distance x congestion_factor of the i-th edge out of u
StoredWeight(a, u, i) == a[u][i].distance * a[u][i].traffic_factor

\* every stored edge has distance >= 0 and congestion_factor > 0
AllValid(a) ==
    \A u \in DOMAIN a : \A i \in 1..Len(a[u]) :
        a[u][i].distance >= 0 /\ a[u][i].traffic_factor > 0

RECURSIVE ReachableFrom(_, _)
ReachableFrom(a, S) ==
    LET T == S \cup UNION {{a[u][i].to_node : i \in 1..Len(a[u])} : u \in S \cap DOMAIN a}
    IN  IF T = S THEN S ELSE ReachableFrom(a, T)

\* a directed path of stored edges leads from s to t
Reachable(a, s, t) == t \in ReachableFrom(a, {s})

SetMin(S) == CHOOSE x \in S : \A y \in S : x <= y

\* cheapest cost from s to every node over paths of at most k edges
\* (Inf: no such path); exact integers, no float rounding or overflow
RECURSIVE CheapestWithin(_, _, _)
CheapestWithin(a, s, k) ==
    IF k = 0 THEN [n \in DOMAIN a |-> IF n = s THEN 0 ELSE Inf]
    ELSE LET d == CheapestWithin(a, s, k - 1)
         IN  [v \in DOMAIN a |->
                SetMin({d[v]} \cup
                       UNION {{d[u] + StoredWeight(a, u, i) :
                                  i \in {j \in 1..Len(a[u]) :
                                            a[u][j].to_node = v /\ d[u] # Inf}} :
                              u \in DOMAIN a})]

\* minimum total effective weight over all directed paths from s, when no
\* stored weight is negative
MinDist(a, s) == CheapestWithin(a, s, Cardinality(DOMAIN a))

\* the sums of stored weights along the node sequence p, one sum per choice
\* among parallel edges; empty when some hop of p is not a stored edge
RECURSIVE PathSums(_, _)
PathSums(a, p) ==
    IF Len(p) <= 1 THEN {0}
    ELSE LET first == {StoredWeight(a, p[1], i) :
                          i \in {j \in 1..Len(a[p[1]]) : a[p[1]][j].to_node = p[2]}}
         IN  {w + r : w \in first, r \in PathSums(a, Tail(p))}

\* cheapest cost from every node to g over paths of at most k edges
RECURSIVE CheapestToWithin(_, _, _)
CheapestToWithin(a, g, k) ==
    IF k = 0 THEN [n \in DOMAIN a |-> IF n = g THEN 0 ELSE Inf]
    ELSE LET d == CheapestToWithin(a, g, k - 1)
         IN  [u \in DOMAIN a |->
                SetMin({d[u]} \cup
                       {StoredWeight(a, u, i) + d[a[u][i].to_node] :
                           i \in {j \in 1..Len(a[u]) : d[a[u][j].to_node] # Inf}})]

\* minimum total effective weight from every node to g, when no stored
\* weight is negative
MinDistTo(a, g) == CheapestToWithin(a, g, Cardinality(DOMAIN a))

\* the heuristic values toward g never exceed the cheapest remaining cost
Admissible(a, c, g) ==
    LET d == MinDistTo(a, g)
    IN  \A n \in DOMAIN a : _heuristic(c, n, g) <= d[n]

\* the cost shortest_path_dijkstra(s, e) returns for known s (lines 88-92)
ShortestPathDijkstraCost(a, s, e) ==
    LET st == DijkstraRun(a, DijkstraInit(a, s))
    IN  IF e \notin DOMAIN st.dist \/ st.dist[e] = Inf THEN Inf ELSE st.dist[e]

PathQuery == op \in {"shortest_path_dijkstra", "a_star"}
SearchQuery == op \in {"dijkstra", "shortest_path_dijkstra", "a_star"}
Running == pc \in {"dijkstra", "a_star", "reconstruct"}
SampleLoaded == adj = load_from_edge_list(NewGraph, get_sample_edges).adj

-----------------------------------------------------------------------------
(* Claims *)

\* C1 as stated: whenever a_star(start, goal) returns on known nodes, its cost
\* equals the cost shortest_path_dijkstra(start, goal) returns on the same
\* graph, whatever coordinates are stored.
C1_CostsAgreeAnyCoords ==
    (pc = "done" /\ op = "a_star" /\ result.status = "returned")
        => result.cost = ShortestPathDijkstraCost(adj, start, goal)

\* C1 amended: on a graph whose edges all have distance >= 0 and
\* congestion_factor > 0 and whose stored coordinates make the heuristic
\* toward the goal admissible (never above the cheapest remaining cost), the
\* cost a_star(start, goal) returns equals the cost
\* shortest_path_dijkstra(start, goal) returns.
C1_CostsAgreeAdmissible ==
    (/\ pc = "done" /\ op = "a_star" /\ result.status = "returned"
     /\ AllValid(adj) /\ Admissible(adj, coords, goal))
        => result.cost = ShortestPathDijkstraCost(adj, start, goal)

\* C1 witness: a_star returned a finite cost over at least two edges on a
\* graph where a heuristic value toward the goal is positive and admissible.
C1_Witness ==
    /\ pc = "done" /\ op = "a_star" /\ result.status = "returned"
    /\ AllValid(adj) /\ Admissible(adj, coords, goal)
    /\ \E n \in DOMAIN adj : _heuristic(coords, n, goal) > 0
    /\ Len(result.path) >= 3
    /\ result.cost = ShortestPathDijkstraCost(adj, start, goal)

\* C2 as stated: a call add_edge(u, v, distance, congestion_factor,
\* bidirectional) with distance < 0 or congestion_factor <= 0 raises
\* InvalidEdgeWeight and leaves the graph as it was, edge count included.
C2_InvalidEdgeRejected ==
    [][\A u \in Names, v \in Names, w \in WeightInputs, b \in BOOLEAN :
          (AddEdge(u, v, w[1], w[2], b) /\ (w[1] < 0 \/ w[2] <= 0))
              => /\ result'.status = "InvalidEdgeWeight"
                 /\ adj' = adj
                 /\ NumEdges(adj') = NumEdges(adj)]_vars

\* C3 as stated: on the sample graph shortest_path_dijkstra('A', 'Z') returns
\* a path of total effective cost 12.6.
C3_SampleCost126 ==
    (/\ pc = "done" /\ op = "shortest_path_dijkstra"
     /\ start = "A" /\ goal = "Z" /\ SampleLoaded)
        => result.status = "returned" /\ result.cost = 126

\* C3 amended: on the sample graph shortest_path_dijkstra('A', 'Z') returns
\* the path A, C, B, D, E, Z of total effective cost 13.9.
C3_SampleCost139 ==
    (/\ pc = "done" /\ op = "shortest_path_dijkstra"
     /\ start = "A" /\ goal = "Z" /\ SampleLoaded)
        => /\ result.status = "returned"
           /\ result.cost = 139
           /\ result.path = <<"A", "C", "B", "D", "E", "Z">>

\* C3 witness: the query for A to Z has returned on the sample graph.
C3_Witness ==
    /\ pc = "done" /\ op = "shortest_path_dijkstra"
    /\ start = "A" /\ goal = "Z" /\ SampleLoaded
    /\ result.status = "returned" /\ result.path # << >>

\* C4 as stated: a non-empty path returned by shortest_path_dijkstra or a_star
\* starts at start, ends at the queried end, follows stored directed edges in
\* their stored direction, and the returned cost is the sum of the effective
\* weights of edges along it.
C4_PathIsWalkWithCost ==
    (/\ pc = "done" /\ PathQuery /\ result.status = "returned"
     /\ result.path # << >>)
        => /\ result.path[1] = start
           /\ result.path[Len(result.path)] = goal
           /\ result.cost \in PathSums(adj, result.path)

\* C5: a search raises exactly when its start is unknown (dijkstra,
\* shortest_path_dijkstra, a_star) or its goal is unknown (a_star); a search
\* that got past its entry has known arguments; shortest_path_dijkstra with a
\* known start and an unknown end returns (empty path, +infinity).
C5_ErrorsExactlyOnUnknownNodes ==
    /\ (pc = "done" /\ SearchQuery)
          => /\ result.status \in {"returned", "ValueError"}
             /\ result.status = "ValueError"
                   <=> (start \notin DOMAIN adj
                        \/ (op = "a_star" /\ goal \notin DOMAIN adj))
             /\ result.status = "ValueError"
                   => result.path = << >> /\ result.value = << >>
             /\ (op = "shortest_path_dijkstra" /\ start \in DOMAIN adj
                 /\ goal \notin DOMAIN adj)
                   => result = Returned(<< >>, Inf)
    /\ Running
          => /\ start \in DOMAIN adj
             /\ op = "a_star" => goal \in DOMAIN adj

\* C5 witness: shortest_path_dijkstra returned (empty, +infinity) for a known
\* start with outgoing edges and an unknown end.
C5_Witness ==
    /\ pc = "done" /\ op = "shortest_path_dijkstra"
    /\ start \in DOMAIN adj /\ goal \notin DOMAIN adj
    /\ adj[start] # << >>
    /\ result = Returned(<< >>, Inf)

\* C6: for known nodes start # end with no directed path from start to end,
\* shortest_path_dijkstra and a_star never enter the path reconstruction and
\* return (empty path, +infinity).
C6_UnreachableIsEmptyInf ==
    (/\ PathQuery /\ start \in DOMAIN adj /\ goal \in DOMAIN adj
     /\ start # goal /\ ~Reachable(adj, start, goal))
        => /\ pc # "reconstruct"
           /\ pc = "done" => result = Returned(<< >>, Inf)

\* C6 witness: a_star returned (empty, +infinity) from a known start without
\* outgoing edges to another known node that has outgoing edges.
C6_Witness ==
    /\ pc = "done" /\ op = "a_star"
    /\ start \in DOMAIN adj /\ goal \in DOMAIN adj /\ start # goal
    /\ adj[start] = << >> /\ adj[goal] # << >>
    /\ result = Returned(<< >>, Inf)

\* C7: no step of a query (a call of neighbors, nodes, edges, dijkstra,
\* shortest_path_dijkstra or a_star, from its entry to the return to the
\* caller, raising or not) changes the node set, any outgoing-edge list or the
\* coordinates.
C7_QueriesDoNotMutate ==
    [][(pc # "idle" \/ pc' # "idle") => (adj' = adj /\ coords' = coords)]_vars

\* C7 witness: neighbors was called with an id that is not a node of a graph
\* that has edges and coordinates.
C7_Witness ==
    /\ pc = "done" /\ op = "neighbors" /\ start \notin DOMAIN adj
    /\ NumEdges(adj) > 0 /\ coords # EmptyMap

\* C8: the target of every stored directed edge is a node of the graph (its
\* source is the key the edge is stored under).
C8_EdgeEndpointsAreNodes ==
    \A u \in DOMAIN adj : \A i \in 1..Len(adj[u]) :
        adj[u][i].to_node \in DOMAIN adj

\* C8 witness: a one-directional edge leads to a node that add_edge created
\* and that has no outgoing edge of its own.
C8_Witness ==
    \E u \in DOMAIN adj :
        /\ adj[u] # << >>
        /\ adj[u][1].to_node # u
        /\ adj[u][1].to_node \in DOMAIN adj
        /\ adj[adj[u][1].to_node] = << >>

\* no node occurs twice in the sequence
NoRepeat(p) == \A i \in 1..Len(p) : \A j \in 1..Len(p) : p[i] = p[j] => i = j

\* C9 as stated, for the backward walk: on every graph add_node / add_edge
\* accepted, the walk of _reconstruct_path over the predecessor map reaches
\* start or a missing predecessor.  The map is fixed during the walk and the
\* next node is a function of the current one, so the walk ends exactly when
\* it never comes back to a node it has visited.
C9_BackwardWalkEnds ==
    pc = "reconstruct" => NoRepeat(PathAppend(path, cur))

\* C10: when the loop of dijkstra(start) has ended on a graph whose edges all
\* have distance >= 0 and congestion_factor > 0, dist holds for every node the
\* minimum total effective weight over all directed paths from start (0 for
\* start, +infinity without a path); and an iteration that pops a stale entry
\* (popped distance above the node's best-known distance) only removes the
\* entry: dist, prev and the rest of the queue stay as they were.
C10_DijkstraDistancesMinimal ==
    /\ [](  (pc = "dijkstra" /\ pq = << >> /\ AllValid(adj))
               => dist = MinDist(adj, start))
    /\ [][(pc = "dijkstra" /\ pq # << >> /\ Head(pq)[1] > dist[Head(pq)[2]])
              => (dist' = dist /\ prev' = prev /\ pq' = Tail(pq))]_vars

\* C10 witness: on a graph with valid edges the entry at the head of the queue
\* is stale, and some node is without a path from start.
C10_Witness ==
    /\ pc = "dijkstra" /\ pq # << >> /\ AllValid(adj)
    /\ Head(pq)[1] > dist[Head(pq)[2]]
    /\ \E n \in DOMAIN adj : dist[n] = Inf

====
